---- MODULE Spec2Model ----
(***************************************************************************)
(* Two-File Overlay Plotter (src/app.py): one render pass of the script,   *)
(* from the two loaded tables to the drawn figure.                         *)
(*                                                                         *)
(* Python strings are sequences of one-character strings, so that          *)
(* str.lower, str.endswith, string ordering and f-strings are computed.    *)
(***************************************************************************)
EXTENDS Integers, Sequences, FiniteSets, TLC

VARIABLES
    cols1, cols2,       \* list(df.columns.astype(str)) of each table
    df1, df2,           \* column name -> cells of the column
    same_names,         \* the checkbox
    pc,                 \* position of the script in the pass
    msg,                \* message / exception that ended the pass
    common,             \* sorted common columns (same-name mode)
    xopts1, xopts2,     \* options offered by the X selectbox(es)
    xidx1, xidx2,       \* index= argument of the X selectbox(es), 0-based
    x1, x2,             \* chosen X columns
    nplots,             \* number_input value (independent mode)
    title_in,           \* per slot: what the user did with the title box
    y_cols,             \* multiselect value (same-name mode)
    pairs,              \* [(y1, y2, title)]
    fig,                \* the figure: nrows, ncols, shown, download
    axes,               \* flattened panels of the figure
    series              \* result of a direct call of aligned_xy

vars == <<cols1, cols2, df1, df2, same_names, pc, msg, common, xopts1, xopts2,
          xidx1, xidx2, x1, x2, nplots, title_in, y_cols, pairs, fig, axes, series>>

-----------------------------------------------------------------------------
(* Bounds of the model *)

\* rows of a table in the aligner specification
MaxRows == 3
\* columns of a table in the column-selection specification
MaxCols == 3
\* plot count offered to the user in the full-pass specification
MaxPlots == 2

(* Program constants *)

\* st.number_input(min_value=1, max_value=16)
MinPlotCount == 1
MaxPlotCount == 16

-----------------------------------------------------------------------------
(* Python string primitives *)

UpperChars == <<"A","B","C","D","E","F","G","H","I","J","K","L","M",
                "N","O","P","Q","R","S","T","U","V","W","X","Y","Z">>
LowerChars == <<"a","b","c","d","e","f","g","h","i","j","k","l","m",
                "n","o","p","q","r","s","t","u","v","w","x","y","z">>
DigitChars == <<"0","1","2","3","4","5","6","7","8","9">>

Range(s) == {s[i] : i \in 1..Len(s)}

\* list.index(x): position (1-based here) of the first occurrence
IndexOf(s, x) == CHOOSE i \in 1..Len(s) : s[i] = x /\ \A j \in 1..(i-1) : s[j] # x

Chars == Range(UpperChars) \cup Range(LowerChars) \cup Range(DigitChars) \cup {"_", "-", "/", " "}

\* code point of each character
CodePoints ==
    [c \in Chars |->
        IF c \in Range(UpperChars) THEN 64 + IndexOf(UpperChars, c)
        ELSE IF c \in Range(LowerChars) THEN 96 + IndexOf(LowerChars, c)
        ELSE IF c \in Range(DigitChars) THEN 47 + IndexOf(DigitChars, c)
        ELSE IF c = "_" THEN 95
        ELSE IF c = "-" THEN 45
        ELSE IF c = "/" THEN 47
        ELSE 32]

ord(c) == CodePoints[c]

\* lowercase form of each character: an uppercase letter is 32 code points below it
LowerOf ==
    [c \in Chars |->
        IF c \in Range(UpperChars)
        THEN CHOOSE d \in Chars : CodePoints[d] = CodePoints[c] + 32
        ELSE c]

\* str.lower()
lower(s) == [i \in 1..Len(s) |-> LowerOf[s[i]]]

\* str.endswith(suffix)
endswith(s, suffix) ==
    /\ Len(s) >= Len(suffix)
    /\ SubSeq(s, Len(s) - Len(suffix) + 1, Len(s)) = suffix

\* a < b for Python strings: lexicographic by code point
RECURSIVE str_lt(_, _)
str_lt(a, b) ==
    IF b = <<>> THEN FALSE
    ELSE IF a = <<>> THEN TRUE
    ELSE IF ord(Head(a)) # ord(Head(b)) THEN ord(Head(a)) < ord(Head(b))
    ELSE str_lt(Tail(a), Tail(b))

\* sorted(set of strings)
RECURSIVE sorted(_)
sorted(S) ==
    IF S = {} THEN <<>>
    ELSE LET m == CHOOSE x \in S : \A y \in S \ {x} : str_lt(x, y)
         IN  <<m>> \o sorted(S \ {m})

\* [x for x in s if ...]: the elements at the kept positions, in order
Filter(s, kept) ==
    [k \in 1..Cardinality(kept) |->
        s[CHOOSE i \in kept : Cardinality({j \in kept : j < i}) = k - 1]]

\* Python's None, as a value comparable with strings; no string contains it
None == <<"None">>

\* the empty string
EmptyStr == <<>>

-----------------------------------------------------------------------------
(* Column names used as inputs *)

TimeSuffix == <<"_","t","i","m","e">>
P_zero_pu_time == <<"P","_","z","e","r","o","_","p","u","_","t","i","m","e">>
A_TIME == <<"A","_","T","I","M","E">>
t_time == <<"t","_","t","i","m","e">>
P_up == <<"P">>
p_low == <<"p">>

\* names of the column-selection specification
SelectNames == {A_TIME, P_zero_pu_time, t_time, P_up, p_low}
\* names of the full-pass specification
PassNames == {t_time, P_up, p_low}

\* lists of distinct names of length n (a table's columns are unique)
InjSeqs(S, n) == {s \in [1..n -> S] : \A i, j \in 1..n : i # j => s[i] # s[j]}
ColumnLists(S, maxlen) == UNION {InjSeqs(S, n) : n \in 0..maxlen}

-----------------------------------------------------------------------------
(* Cells and numeric coercion *)

NumCell(n) == [kind |-> "num", num |-> n, text |-> <<>>]
StrCell(t) == [kind |-> "str", num |-> 0, text |-> t]
NaNCell == [kind |-> "nan", num |-> 0, text |-> <<>>]

\* a float value of a numeric Series: NaN or a number
NaN == [nan |-> TRUE, val |-> 0]
Number(n) == [nan |-> FALSE, val |-> n]

RECURSIVE digits_value(_, _)
digits_value(t, acc) ==
    IF t = <<>> THEN acc
    ELSE digits_value(Tail(t), 10 * acc + IndexOf(DigitChars, Head(t)) - 1)

all_digits(t) == t # <<>> /\ \A i \in 1..Len(t) : t[i] \in Range(DigitChars)

\* pd.to_numeric(value, errors="coerce") of one cell
to_numeric(cell) ==
    IF cell.kind = "num" THEN Number(cell.num)
    ELSE IF cell.kind = "nan" THEN NaN
    ELSE IF all_digits(cell.text) THEN Number(digits_value(cell.text, 0))
    ELSE IF cell.text # <<>> /\ Head(cell.text) = "-" /\ all_digits(Tail(cell.text))
         THEN Number(0 - digits_value(Tail(cell.text), 0))
    ELSE NaN

\* df[col] raises KeyError when col is not a column of df
has_column(df, col) == col \in DOMAIN df

\* to_numeric_series(df, col): the column, coerced cell by cell
to_numeric_series(df, col) == [r \in 1..Len(df[col]) |-> to_numeric(df[col][r])]

\* pd.DataFrame({"x": x, "y": y}): rows keep their index label
xy_frame(x, y) == [r \in 1..Len(x) |-> [row |-> r, x |-> x[r], y |-> y[r]]]

\* dropna(how="all"): a row is dropped only when every value is missing
dropna_keep_any(rec) == ~rec.x.nan \/ ~rec.y.nan

\* DataFrame.dropna(): drops the rows with a missing value in any column
dropna_keep(rec) == ~rec.x.nan /\ ~rec.y.nan

dropna(frame) == Filter(frame, {r \in 1..Len(frame) : dropna_keep(frame[r])})

\* tmp["x"], tmp["y"]: Series of (index label, value)
frame_column_x(frame) == [k \in 1..Len(frame) |-> [row |-> frame[k].row, val |-> frame[k].x.val]]
frame_column_y(frame) == [k \in 1..Len(frame) |-> [row |-> frame[k].row, val |-> frame[k].y.val]]

aligned_xy(df, x_col, y_col) ==
    LET x == to_numeric_series(df, x_col)
        y == to_numeric_series(df, y_col)
        tmp == dropna(xy_frame(x, y))
    IN  [x |-> frame_column_x(tmp), y |-> frame_column_y(tmp)]

\* suggest_time_cols(cols)
is_time_col(c) == endswith(lower(c), TimeSuffix)
suggest_time_cols(cols) == Filter(cols, {i \in 1..Len(cols) : is_time_col(cols[i])})

-----------------------------------------------------------------------------
(* Widgets *)

\* st.selectbox(options=...): the values it can return; None without options
selectbox(options) == IF options = <<>> THEN {None} ELSE Range(options)

\* st.multiselect(options=...): the selected options, in the order selected
multiselect(options) == ColumnLists(Range(options), Len(options))

\* st.text_input(value=...): what the user can do with the box
TitleActions == {"untouched", "cleared", "typed"}
TypedTitle == <<"T">>
text_input(value, action) ==
    IF action = "untouched" THEN value
    ELSE IF action = "cleared" THEN EmptyStr
    ELSE TypedTitle

-----------------------------------------------------------------------------
(* Column selection *)

\* [c for c in cols1 if c in cols2]: the common names, not sorted
common_unsorted(c1, c2) ==
    Filter(c1, {k \in 1..Len(c1) : \E i \in 1..Len(c2) : c2[i] = c1[k]})

\* the intersection taken on the lowercase names
sorted_common_nocase(c1, c2) ==
    sorted({c \in Range(c1) : \E i \in 1..Len(c2) : lower(c2[i]) = lower(c)})

\* sorted(set(cols1).intersection(cols2))
sorted_common(c1, c2) == sorted({c \in Range(c1) : \E i \in 1..Len(c2) : c2[i] = c})

\* time[0] if time else cols[0]
default_x_first_time(time, cols) == IF time # <<>> THEN time[1] ELSE cols[1]

\* "P_zero_pu_time" if in time else (time[0] if time else cols[0])
default_x(time, cols) ==
    IF P_zero_pu_time \in Range(time) THEN P_zero_pu_time
    ELSE IF time # <<>> THEN time[1]
    ELSE cols[1]

\* options=cols
x_options_all(time, cols) == cols

\* options=time if time else cols
x_options(time, cols) == IF time # <<>> THEN time ELSE cols

\* index=(time.index(default) if default in time else 0)
x_index(time, default) == IF default \in Range(time) THEN IndexOf(time, default) - 1 ELSE 0

\* [c for c in cols if c != x]
without(cols, x) == Filter(cols, {i \in 1..Len(cols) : cols[i] # x})

\* [(y, y, y) for y in reversed(y_cols)]
shared_pairs_reversed(ys) ==
    [k \in 1..Len(ys) |-> [y1 |-> ys[Len(ys) + 1 - k], y2 |-> ys[Len(ys) + 1 - k],
                           title |-> ys[Len(ys) + 1 - k]]]

\* [(y, y, y) for y in y_cols]
shared_pairs(ys) ==
    [k \in 1..Len(ys) |-> [y1 |-> ys[k], y2 |-> ys[k], title |-> ys[k]]]

\* one slot of the independent-mode loop: (y1, y2, title)
slot_pair(choice) ==
    [y1 |-> choice.y1, y2 |-> choice.y2, title |-> text_input(choice.y1, choice.t)]

\* the loop over range(nplots): one appended pair per slot
independent_pairs(slots) == [i \in 1..Len(slots) |-> slot_pair(slots[i])]

-----------------------------------------------------------------------------
(* Plotting *)

NoFig == [created |-> FALSE, nrows |-> 0, ncols |-> 0, shown |-> FALSE, download |-> FALSE]
NoSeries == [called |-> FALSE, x_col |-> None, y_col |-> None, x |-> <<>>, y |-> <<>>]

\* ncols = 2 if n > 1 else 1
layout_ncols(n) == IF n > 1 THEN 2 ELSE 1

\* nrows = (n + ncols - 1) // ncols
layout_nrows(n, ncols) == (n + ncols - 1) \div ncols

\* plt.subplots(nrows, ncols) flattened: panel k (0-based) is at row k // ncols
flat_position(k, ncols) == [row |-> k \div ncols, col |-> k % ncols]

blank_axes(nrows, ncols) ==
    [k \in 1..(nrows * ncols) |->
        [row |-> flat_position(k - 1, ncols).row, col |-> flat_position(k - 1, ncols).col,
         visible |-> TRUE, title |-> EmptyStr, xlabel |-> EmptyStr, lines |-> <<>>]]

\* str(v) inside an f-string
py_str(v) == IF v = None THEN <<"N","o","n","e">> ELSE v

\* f"{y1} vs {y2}"
vs_title(y1, y2) == py_str(y1) \o <<" ","v","s"," ">> \o py_str(y2)

\* title if title else y1
panel_title_y1(pair) ==
    IF pair.title # EmptyStr /\ pair.title # None THEN pair.title
    ELSE py_str(pair.y1)

\* title if title else f"{y1} vs {y2}"
panel_title(pair) ==
    IF pair.title # EmptyStr /\ pair.title # None THEN pair.title
    ELSE vs_title(pair.y1, pair.y2)

\* x1 if same_names else f"{x1} / {x2}"
panel_xlabel(same, xa, xb) == IF same THEN xa ELSE py_str(xa) \o <<" ","/"," ">> \o py_str(xb)

\* the body of the plotting loop for one pair
draw_panel(ax, pair) ==
    [ax EXCEPT !.title = panel_title(pair),
               !.xlabel = panel_xlabel(same_names, x1, x2),
               !.lines = << [style |-> "solid",  data |-> aligned_xy(df1, x1, pair.y1)],
                            [style |-> "dashed", data |-> aligned_xy(df2, x2, pair.y2)] >>]

\* the pair whose aligned_xy call raises KeyError, 0 if none does
first_key_error(ps) ==
    LET bad == {i \in 1..Len(ps) : ~has_column(df1, ps[i].y1) \/ ~has_column(df2, ps[i].y2)}
    IN  IF bad = {} THEN 0 ELSE CHOOSE i \in bad : \A j \in bad : i <= j

\* panel index (1-based) that enumerate(pairs) gives the i-th pair (1-based)
panel_of(i) == i

\* for i, pair in enumerate(pairs): axes[i] drawn, for the first upto pairs
draw_pairs(ax0, ps, upto) ==
    [k \in 1..Len(ax0) |->
        IF \E i \in 1..upto : panel_of(i) = k
        THEN draw_panel(ax0[k], ps[CHOOSE i \in 1..upto : panel_of(i) = k])
        ELSE ax0[k]]

\* for j in range(i + 2, len(axes))
hide_unused_late(ax, n) ==
    [k \in 1..Len(ax) |-> IF k - 1 > n THEN [ax[k] EXCEPT !.visible = FALSE] ELSE ax[k]]

\* for j in range(i + 1, len(axes)): axes[j].axis("off"), i the last loop index
hide_unused(ax, n) ==
    [k \in 1..Len(ax) |-> IF k - 1 >= n THEN [ax[k] EXCEPT !.visible = FALSE] ELSE ax[k]]

-----------------------------------------------------------------------------
(* Tables *)

\* cell contents of the tables of a pass, by column position
SampleColumn(k) ==
    IF k % 3 = 1 THEN <<NumCell(1), NumCell(2)>>
    ELSE IF k % 3 = 2 THEN <<NumCell(3), StrCell(<<"b","a","d">>)>>
    ELSE <<StrCell(<<"-","2">>), NaNCell>>

sample_df(cols) == [c \in Range(cols) |-> SampleColumn(IndexOf(cols, c))]

\* the state of the script once both files are loaded (lines 76-80)
Loaded(c1, c2) ==
    /\ cols1 = c1 /\ cols2 = c2
    /\ df1 = sample_df(c1) /\ df2 = sample_df(c2)
    /\ same_names = TRUE
    /\ pc = "loaded" /\ msg = "none"
    /\ common = <<>>
    /\ xopts1 = <<>> /\ xopts2 = <<>> /\ xidx1 = 0 /\ xidx2 = 0
    /\ x1 = None /\ x2 = None
    /\ nplots = 0 /\ title_in = <<>> /\ y_cols = <<>> /\ pairs = <<>>
    /\ fig = NoFig /\ axes = <<>> /\ series = NoSeries

Init == \E c1, c2 \in ColumnLists(PassNames, Cardinality(PassNames)) : Loaded(c1, c2)

-----------------------------------------------------------------------------
(* The pass *)

\* lines 93-98: same-name mode, no common column
SameNamesStop ==
    /\ pc = "loaded"
    /\ same_names' = TRUE
    /\ common' = sorted_common(cols1, cols2)
    /\ common' = <<>>
    /\ msg' = "NoCommonColumns"
    /\ pc' = "stopped"
    /\ UNCHANGED <<cols1, cols2, df1, df2, xopts1, xopts2, xidx1, xidx2, x1, x2,
                   nplots, title_in, pairs, fig, axes, series, y_cols>>

\* lines 93-107: same-name mode, the shared X selectbox
SameNamesX ==
    /\ pc = "loaded"
    /\ same_names' = TRUE
    /\ common' = sorted_common(cols1, cols2)
    /\ common' # <<>>
    /\ LET time_common == suggest_time_cols(common')
           dflt == default_x(time_common, common')
       IN  /\ xopts1' = x_options(time_common, common')
           /\ xidx1' = x_index(time_common, dflt)
    /\ xopts2' = xopts1' /\ xidx2' = xidx1'
    /\ \E x_col \in selectbox(xopts1') : x1' = x_col /\ x2' = x_col
    /\ pc' = "shared_y"
    /\ UNCHANGED <<cols1, cols2, df1, df2, msg, nplots, title_in, pairs, fig, axes, series, y_cols>>

\* lines 109-114: same-name mode, the Y multiselect and the pairs
SharedPairs ==
    /\ pc = "shared_y"
    /\ \E ys \in multiselect(without(common, x1)) : y_cols' = ys /\ pairs' = shared_pairs(ys)
    /\ pc' = "plot"
    /\ UNCHANGED <<cols1, cols2, df1, df2, same_names, msg, common, xopts1, xopts2,
                   xidx1, xidx2, x1, x2, nplots, title_in, fig, axes, series>>

\* lines 116-129: independent mode, cols1[0] or cols2[0] of a table without columns
IndependentCrash ==
    /\ pc = "loaded"
    /\ same_names' = FALSE
    /\ cols1 = <<>> \/ cols2 = <<>>
    /\ IF cols1 = <<>>
       THEN UNCHANGED <<xopts1, xidx1, x1>>
       ELSE LET time1 == suggest_time_cols(cols1)
            IN  /\ xopts1' = x_options(time1, cols1)
                /\ xidx1' = x_index(time1, default_x(time1, cols1))
                /\ \E x \in selectbox(xopts1') : x1' = x
    /\ msg' = "IndexError"
    /\ pc' = "crashed"
    /\ UNCHANGED <<cols1, cols2, df1, df2, common, xopts2, xidx2, x2,
                   nplots, title_in, pairs, fig, axes, series, y_cols>>

\* lines 116-129: independent mode, one X selectbox per table
IndependentX ==
    /\ pc = "loaded"
    /\ same_names' = FALSE
    /\ cols1 # <<>> /\ cols2 # <<>>
    /\ LET time1 == suggest_time_cols(cols1)
           time2 == suggest_time_cols(cols2)
       IN  /\ xopts1' = x_options(time1, cols1)
           /\ xidx1' = x_index(time1, default_x(time1, cols1))
           /\ xopts2' = x_options(time2, cols2)
           /\ xidx2' = x_index(time2, default_x(time2, cols2))
    /\ \E x \in selectbox(xopts1') : x1' = x
    /\ \E x \in selectbox(xopts2') : x2' = x
    /\ pc' = "indep_y"
    /\ UNCHANGED <<cols1, cols2, df1, df2, msg, common, nplots, title_in, pairs,
                   fig, axes, series, y_cols>>

\* lines 131-143: independent mode, the loop over the slots
IndependentPairs ==
    /\ pc = "indep_y"
    /\ \E n \in MinPlotCount..(IF MaxPlots < MaxPlotCount THEN MaxPlots ELSE MaxPlotCount) :
       \E slots \in [1..n -> [y1 : selectbox(without(cols1, x1)),
                              y2 : selectbox(without(cols2, x2)),
                              t  : TitleActions]] :
           /\ nplots' = n
           /\ title_in' = [i \in 1..n |-> slots[i].t]
           /\ pairs' = independent_pairs(slots)
    /\ pc' = "plot"
    /\ UNCHANGED <<cols1, cols2, df1, df2, same_names, msg, common, xopts1, xopts2,
                   xidx1, xidx2, x1, x2, fig, axes, series, y_cols>>

\* the guard left out
no_pairs_never(ps) == FALSE

\* not pairs
no_pairs(ps) == ps = <<>>

\* lines 150-152: nothing to plot
PlotStop ==
    /\ pc = "plot"
    /\ no_pairs(pairs)
    /\ msg' = "NoSelection"
    /\ pc' = "stopped"
    /\ UNCHANGED <<cols1, cols2, df1, df2, same_names, common, xopts1, xopts2,
                   xidx1, xidx2, x1, x2, nplots, title_in, pairs, fig, axes, series, y_cols>>

\* lines 154-192: the figure, the loop over the pairs, the unused panels, the output
PlotDraw ==
    /\ pc = "plot"
    /\ ~no_pairs(pairs)
    /\ first_key_error(pairs) = 0
    /\ LET n == Len(pairs)
           ncols == layout_ncols(n)
           nrows == layout_nrows(n, ncols)
       IN  /\ axes' = hide_unused(draw_pairs(blank_axes(nrows, ncols), pairs, n), n)
           /\ fig' = [created |-> TRUE, nrows |-> nrows, ncols |-> ncols,
                      shown |-> TRUE, download |-> TRUE]
    /\ pc' = "done"
    /\ UNCHANGED <<cols1, cols2, df1, df2, same_names, msg, common, xopts1, xopts2,
                   xidx1, xidx2, x1, x2, nplots, title_in, pairs, series, y_cols>>

\* lines 154-169: aligned_xy raises KeyError on a pair with a column the table lacks
PlotCrash ==
    /\ pc = "plot"
    /\ ~no_pairs(pairs)
    /\ first_key_error(pairs) # 0
    /\ LET n == Len(pairs)
           ncols == layout_ncols(n)
           nrows == layout_nrows(n, ncols)
       IN  /\ axes' = draw_pairs(blank_axes(nrows, ncols), pairs, first_key_error(pairs) - 1)
           /\ fig' = [created |-> TRUE, nrows |-> nrows, ncols |-> ncols,
                      shown |-> FALSE, download |-> FALSE]
    /\ msg' = "KeyError"
    /\ pc' = "crashed"
    /\ UNCHANGED <<cols1, cols2, df1, df2, same_names, common, xopts1, xopts2,
                   xidx1, xidx2, x1, x2, nplots, title_in, pairs, series, y_cols>>

Next ==
    \/ SameNamesStop
    \/ SameNamesX
    \/ SharedPairs
    \/ IndependentCrash
    \/ IndependentX
    \/ IndependentPairs
    \/ PlotStop
    \/ PlotDraw
    \/ PlotCrash

Spec == Init /\ [][Next]_vars

-----------------------------------------------------------------------------
(* Column selection alone, over more names *)

InitSelect == \E c1, c2 \in ColumnLists(SelectNames, MaxCols) : Loaded(c1, c2)

NextSelect ==
    \/ SameNamesStop
    \/ SameNamesX
    \/ IndependentCrash
    \/ IndependentX

SpecSelect == InitSelect /\ [][NextSelect]_vars

-----------------------------------------------------------------------------
(* aligned_xy alone, over every table of two columns *)

AlignCells == {NumCell(1), StrCell(<<"-","2">>), StrCell(<<"b","a","d">>), NaNCell}
AlignCols == <<t_time, P_up>>

InitAlign ==
    /\ cols1 = AlignCols /\ cols2 = AlignCols
    /\ \E n \in 0..MaxRows : df1 \in [Range(AlignCols) -> [1..n -> AlignCells]]
    /\ df2 = sample_df(AlignCols)
    /\ same_names = TRUE
    /\ pc = "align" /\ msg = "none"
    /\ common = <<>>
    /\ xopts1 = <<>> /\ xopts2 = <<>> /\ xidx1 = 0 /\ xidx2 = 0
    /\ x1 = None /\ x2 = None
    /\ nplots = 0 /\ title_in = <<>> /\ y_cols = <<>> /\ pairs = <<>>
    /\ fig = NoFig /\ axes = <<>> /\ series = NoSeries

\* lines 41-45: one call aligned_xy(df1, x_col, y_col)
AlignCall ==
    /\ pc = "align"
    /\ \E x_col, y_col \in Range(cols1) :
         LET r == aligned_xy(df1, x_col, y_col)
         IN  series' = [called |-> TRUE, x_col |-> x_col, y_col |-> y_col,
                        x |-> r.x, y |-> r.y]
    /\ pc' = "aligned"
    /\ UNCHANGED <<cols1, cols2, df1, df2, same_names, msg, common, xopts1, xopts2,
                   xidx1, xidx2, x1, x2, nplots, title_in, y_cols, pairs, fig, axes>>

NextAlign == AlignCall

SpecAlign == InitAlign /\ [][NextAlign]_vars

-----------------------------------------------------------------------------
(* The plotting stage alone, for every plot count the number_input allows *)

LayoutCols == <<t_time, P_up, p_low>>
LayoutYs == <<P_up, p_low>>
LayoutTitles == <<"untouched", "cleared", "typed">>

\* the m-th of the twelve ways to fill a slot
LayoutChoice(m) ==
    [y1 |-> LayoutYs[(m % 2) + 1],
     y2 |-> LayoutYs[((m \div 2) % 2) + 1],
     t  |-> LayoutTitles[((m \div 4) % 3) + 1]]

\* independent mode, X = t_time on both sides, n slots filled from the k-th way on
InitLayout ==
    \E n \in MinPlotCount..MaxPlotCount, k \in 0..11 :
       LET slots == [i \in 1..n |-> LayoutChoice(i + k)]
       IN  /\ cols1 = LayoutCols /\ cols2 = LayoutCols
           /\ df1 = sample_df(LayoutCols) /\ df2 = sample_df(LayoutCols)
           /\ same_names = FALSE
           /\ pc = "plot" /\ msg = "none"
           /\ common = <<>>
           /\ xopts1 = <<t_time>> /\ xopts2 = <<t_time>> /\ xidx1 = 0 /\ xidx2 = 0
           /\ x1 = t_time /\ x2 = t_time
           /\ nplots = n
           /\ title_in = [i \in 1..n |-> slots[i].t]
           /\ y_cols = <<>>
           /\ pairs = independent_pairs(slots)
           /\ fig = NoFig /\ axes = <<>> /\ series = NoSeries

NextLayout == PlotDraw

SpecLayout == InitLayout /\ [][NextLayout]_vars

-----------------------------------------------------------------------------
(* Properties *)

\* the cells of the columns a call of aligned_xy was given
CallX == df1[series.x_col]
CallY == df1[series.y_col]
\* rows of the call where both cells coerce to a number
BothNumeric == {r \in 1..Len(CallX) : ~to_numeric(CallX[r]).nan /\ ~to_numeric(CallY[r]).nan}
\* rows of the call where either cell fails coercion
EitherFailed == {r \in 1..Len(CallX) : to_numeric(CallX[r]).nan \/ to_numeric(CallY[r]).nan}

\* C1: aligned_xy returns two sequences of equal length that hold, in original
\* row order, the coerced x and y of exactly the rows where both cells coerce to
\* a number; the length is the row count minus the rows where either side failed.
C1_AlignedRows ==
    pc = "aligned" =>
        /\ Len(series.x) = Len(series.y)
        /\ \A k \in 1..Len(series.x) :
              /\ series.x[k].row = series.y[k].row
              /\ series.x[k].row \in BothNumeric
              /\ series.x[k].val = to_numeric(CallX[series.x[k].row]).val
              /\ series.y[k].val = to_numeric(CallY[series.y[k].row]).val
        /\ \A r \in BothNumeric : \E k \in 1..Len(series.x) : series.x[k].row = r
        /\ \A k \in 1..(Len(series.x) - 1) : series.x[k].row < series.x[k + 1].row
        /\ Len(series.x) = Len(CallX) - Cardinality(EitherFailed)

\* a call on two different columns that kept two rows and dropped the middle one
C1_Witness ==
    /\ pc = "aligned"
    /\ series.x_col # series.y_col
    /\ Len(CallX) = 3
    /\ Len(series.x) = 2
    /\ series.x[1].row = 1 /\ series.x[2].row = 3
    /\ CallX[2].kind = "num" /\ CallY[2].kind = "str"

\* independent mode has built its pairs
IndependentBuilt == ~same_names /\ pc \in {"plot", "done", "crashed"} /\ msg # "IndexError"

\* C2: in independent mode a pairing is emitted only for a slot whose two Y
\* selections are set: no emitted pairing has an unset Y on either side.
C2_NoUnsetY ==
    IndependentBuilt =>
        \A i \in 1..Len(pairs) : pairs[i].y1 # None /\ pairs[i].y2 # None

\* a suffix test written on the characters of the name
EndsInTime(c) ==
    /\ Len(c) >= 5
    /\ lower(<<c[Len(c) - 4], c[Len(c) - 3], c[Len(c) - 2], c[Len(c) - 1], c[Len(c)]>>)
         = <<"_", "t", "i", "m", "e">>

\* every candidate is offered
AllOffered(opts, cands) == Range(opts) = Range(cands)

\* C3 as stated: every common column (same-name mode), every column of the
\* table (independent mode) is offered as an X option.
C3_AllCandidatesOffered ==
    /\ pc = "shared_y" => AllOffered(xopts1, common)
    /\ pc = "indep_y" => AllOffered(xopts1, cols1) /\ AllOffered(xopts2, cols2)

\* the options are the time-suffixed candidates when there is one, else all
TimeOrAllOffered(opts, cands) ==
    LET anyTime == \E i \in 1..Len(cands) : EndsInTime(cands[i])
    IN  /\ Range(opts) \subseteq Range(cands)
        /\ \A c \in Range(cands) : c \in Range(opts) <=> (EndsInTime(c) \/ ~anyTime)
        /\ \A i, j \in 1..Len(opts) :
              i < j => IndexOf(cands, opts[i]) < IndexOf(cands, opts[j])

\* C3 amended: the X options are the candidates ending in "_time" when at least
\* one candidate does, and all the candidates otherwise, in candidate order.
C3_TimeOrAllOffered ==
    /\ pc = "shared_y" => TimeOrAllOffered(xopts1, common)
    /\ pc = "indep_y" => TimeOrAllOffered(xopts1, cols1) /\ TimeOrAllOffered(xopts2, cols2)

\* independent mode: File-1 has a time column and other columns, which are not offered
C3_Witness ==
    /\ pc = "indep_y"
    /\ Len(cols1) = 3
    /\ xopts1 = <<A_TIME>>
    /\ cols1[1] = P_up

SharedBuilt == same_names /\ (pc \in {"plot", "done"} \/ msg = "NoSelection")

\* C5: in same-name mode there is one pairing per selected Y, in selection
\* order, with the chosen X on both sides, the Y name on both sides and as
\* title; the chosen X is no Y of any pairing.
C5_SharedPairs ==
    SharedBuilt =>
        /\ Len(pairs) = Len(y_cols)
        /\ \A k \in 1..Len(pairs) :
              /\ pairs[k].y1 = y_cols[k]
              /\ pairs[k].y2 = y_cols[k]
              /\ pairs[k].title = y_cols[k]
              /\ pairs[k].y1 # x1 /\ pairs[k].y2 # x2
        /\ x1 = x2
        /\ x1 \in Range(common)
        /\ pc = "done" =>
              \A k \in 1..Len(pairs) :
                 /\ axes[k].title = y_cols[k]
                 /\ axes[k].lines[1].data = aligned_xy(df1, x1, y_cols[k])
                 /\ axes[k].lines[2].data = aligned_xy(df2, x1, y_cols[k])

\* two Ys selected against the sorted order of the common columns, and drawn
C5_Witness ==
    /\ same_names /\ pc = "done"
    /\ x1 = t_time
    /\ y_cols = <<p_low, P_up>>

\* C6: common is the sorted, duplicate-free list of the names in both tables
\* (exact, case-sensitive equality), has the same content with the tables
\* swapped, and is empty iff no name is in both.
C6_CommonColumns ==
    (same_names /\ pc \in {"stopped", "shared_y"}) =>
        /\ Range(common) = {c \in Range(cols1) : c \in Range(cols2)}
        /\ \A i, j \in 1..Len(common) : i < j => str_lt(common[i], common[j])
        /\ \A i, j \in 1..Len(common) : i # j => common[i] # common[j]
        /\ Range(sorted_common(cols2, cols1)) = Range(common)
        /\ common = <<>> <=> ~\E i \in 1..Len(cols1), j \in 1..Len(cols2) : cols1[i] = cols2[j]

\* "P" is in both tables, "p" in one only, and the common names were not in order
C6_Witness ==
    /\ pc = "shared_y"
    /\ cols1 = <<t_time, p_low, P_up>>
    /\ cols2 = <<t_time, P_up, A_TIME>>
    /\ common = <<P_up, t_time>>

\* C7: with zero pairings at the plotting stage NoSelection is reported and the
\* pass halts: no figure, no series, no download; a chart is drawn only when
\* the pairing list is not empty.
C7_NoSelection ==
    /\ msg = "NoSelection" <=> (pc \in {"stopped", "done", "crashed"} /\ msg \notin {"NoCommonColumns", "IndexError"} /\ pairs = <<>>)
    /\ msg = "NoSelection" =>
          /\ pc = "stopped"
          /\ ~fig.created /\ ~fig.shown /\ ~fig.download
          /\ axes = <<>>
    /\ (fig.created \/ fig.shown \/ fig.download \/ axes # <<>>) => pairs # <<>>

\* same-name mode with Y candidates on offer and none selected
C7_Witness ==
    /\ msg = "NoSelection"
    /\ Len(common) = 3
    /\ x1 = t_time

\* C8 as stated: in independent mode, a slot whose title is empty is shown with
\* the File-1 Y name as panel title.
C8_BlankTitleIsY1 ==
    (~same_names /\ pc = "done") =>
        \A i \in 1..Len(pairs) : pairs[i].title = EmptyStr => axes[i].title = pairs[i].y1

\* C8 amended: when the title is empty the panel title is
\* "<File-1 Y> vs <File-2 Y>"; the File-1 Y name is the text the title box is
\* created with, and is the panel title when the box still holds that text.
C8_TitleDefault ==
    (~same_names /\ pc = "done") =>
        \A i \in 1..Len(pairs) :
           /\ title_in[i] = "untouched" => axes[i].title = pairs[i].y1
           /\ title_in[i] = "cleared" =>
                 /\ pairs[i].title = <<>>
                 /\ axes[i].title = pairs[i].y1 \o <<" ", "v", "s", " ">> \o pairs[i].y2

\* a drawn slot with different Y names on the two sides and an emptied title
C8_Witness ==
    /\ ~same_names /\ pc = "done"
    /\ title_in[1] = "cleared"
    /\ pairs[1].y1 = P_up /\ pairs[1].y2 = p_low

\* the default offered by a selectbox
OfferedDefault(opts, idx) == opts[idx + 1]

\* the first candidate ending in "_time", else the first candidate
FirstTimeElseFirst(cands) ==
    LET T == {i \in 1..Len(cands) : EndsInTime(cands[i])}
    IN  IF T = {} THEN cands[1] ELSE cands[CHOOSE i \in T : \A j \in T : i <= j]

\* C9 as stated: the default X is the first candidate, in candidate order, whose
\* lowercase form ends with "_time", else the first candidate.
C9_FirstTimeDefault ==
    /\ pc = "shared_y" => OfferedDefault(xopts1, xidx1) = FirstTimeElseFirst(common)
    /\ pc = "indep_y" =>
          /\ OfferedDefault(xopts1, xidx1) = FirstTimeElseFirst(cols1)
          /\ OfferedDefault(xopts2, xidx2) = FirstTimeElseFirst(cols2)

PreferredElseFirstTime(cands) ==
    IF \E i \in 1..Len(cands) : cands[i] = P_zero_pu_time THEN P_zero_pu_time
    ELSE FirstTimeElseFirst(cands)

\* C9 amended: the default X is "P_zero_pu_time" when that is a candidate;
\* otherwise the first candidate whose lowercase form ends with "_time", else
\* the first candidate.
C9_PreferredDefault ==
    /\ pc = "shared_y" => OfferedDefault(xopts1, xidx1) = PreferredElseFirstTime(common)
    /\ pc = "indep_y" =>
          /\ OfferedDefault(xopts1, xidx1) = PreferredElseFirstTime(cols1)
          /\ OfferedDefault(xopts2, xidx2) = PreferredElseFirstTime(cols2)

\* same-name mode: "A_TIME" sorts first, the default is "P_zero_pu_time"
C9_Witness ==
    /\ pc = "shared_y"
    /\ common = <<A_TIME, P_up, P_zero_pu_time>>
    /\ xopts1 = <<A_TIME, P_zero_pu_time>>
    /\ xidx1 = 1

\* C10: for n pairings the grid has 2 columns when n > 1 and 1 when n = 1, has
\* ceil(n/2) rows, draws the i-th pairing in the i-th panel in row-major order,
\* and hides exactly the panels after the n-th: one when n is odd and above 1.
C10_Layout ==
    pc = "done" =>
        LET n == Len(pairs)
            hidden == {k \in 1..Len(axes) : ~axes[k].visible}
        IN  /\ fig.ncols = (IF n = 1 THEN 1 ELSE 2)
            /\ 2 * fig.nrows >= n /\ 2 * (fig.nrows - 1) < n
            /\ Len(axes) = fig.nrows * fig.ncols
            /\ \A k \in 1..Len(axes) :
                  /\ axes[k].row * fig.ncols + axes[k].col = k - 1
                  /\ axes[k].col < fig.ncols /\ axes[k].row < fig.nrows
            /\ \A i \in 1..n :
                  /\ axes[i].lines = << [style |-> "solid",  data |-> aligned_xy(df1, x1, pairs[i].y1)],
                                        [style |-> "dashed", data |-> aligned_xy(df2, x2, pairs[i].y2)] >>
                  /\ pairs[i].title \notin {EmptyStr, None} => axes[i].title = pairs[i].title
            /\ hidden = {k \in 1..Len(axes) : k > n}
            /\ Cardinality(hidden) = (IF n > 1 /\ n % 2 = 1 THEN 1 ELSE 0)

\* fifteen pairings: eight rows of two, the sixteenth panel hidden
C10_Witness ==
    /\ pc = "done"
    /\ Len(pairs) = 15
    /\ fig.nrows = 8 /\ fig.ncols = 2
    /\ ~axes[16].visible /\ axes[15].visible
    /\ pairs[14] # pairs[15]

====
